---- MODULE Spec2Model ----
(***************************************************************************)
(* The authoritative room/session state machine of the gif-league server   *)
(* (the socket.io server with session support).  A state is the two global *)
(* maps `rooms` and `sessions`, the sockets that have connected, the clock *)
(* and the events emitted by the handler that ran last.  One action per    *)
(* socket.io handler, the handshake/connection pair, the sweeper timer     *)
(* and the passing of time.                                                *)
(*                                                                         *)
(* Encoding.  Connection handles (socket.id) are the naturals 1, 2, ... in *)
(* the order the sockets connect; 0 stands for the empty string, the one   *)
(* falsy value a votedPlayerId can take as a key of voteCounts.  Session   *)
(* ids are 1, 2, ... in the order they are minted; 0 is "no sessionId in   *)
(* the handshake".  Room ids are naturals >= 1; 0 is `undefined`.  Time is *)
(* counted in minutes.                                                     *)
(***************************************************************************)
EXTENDS Integers, Sequences, FiniteSets, TLC

VARIABLES rooms, sessions, sockets, now, emitted

vars == <<rooms, sessions, sockets, now, emitted>>

(* ------------------------------ bounds --------------------------------- *)

\* Sockets that ever connect under Spec (every reconnection is a new socket).
MaxSockets == 2
\* Sockets that ever connect under SpecClient.
MaxClientSockets == 3
\* A tally runs only while every player has fewer points than this.
MaxPoints == 2
\* The clock stops here.
MaxNow == 7

(* ------------------------- program constants --------------------------- *)

maxRounds == 10
SESSION_EXPIRY == 5

(* ------------------------------ inputs --------------------------------- *)

Undef == 0
NoHandle == 0
NoSid == 0
NoName == ""

RoomIds == {1}
Names == {"ann"}
Topics == {"cats"}
Gifs == {"g1", "g2"}
\* The gifs the search shows the clients of SpecClient.
ClientGifs == {"g1"}

Handles == DOMAIN sockets
\* What a client can put in votedPlayerId: any handle it has seen, or "".
VoteTargets == Handles \cup {NoHandle}

(* ------------------------------ helpers -------------------------------- *)

SetMax(S) == CHOOSE x \in S : \A y \in S : y <= x

\* Array.prototype.findIndex; 0 when nothing matches (-1 in the source).
FindIndex(seq, P(_)) ==
    IF \E i \in 1..Len(seq) : P(seq[i])
    THEN CHOOSE i \in 1..Len(seq) : P(seq[i]) /\ \A j \in 1..(i - 1) : ~P(seq[j])
    ELSE 0

PlayerBySession(room, sid) == FindIndex(room.players, LAMBDA p : p.sessionId = sid)

\* socket.emit(ev, arg) and io.to(roomId).emit(ev, arg).
ToSocket(h, ev, arg) == [to |-> <<"socket", h>>, ev |-> ev, arg |-> arg]
ToRoom(rid, ev, arg) == [to |-> <<"room", rid>>, ev |-> ev, arg |-> arg]

(* ---------------------------- construction ----------------------------- *)

Init ==
    /\ rooms = <<>>
    /\ sessions = <<>>
    /\ sockets = <<>>
    /\ now = 0
    /\ emitted = <<>>

(* ----------------------- handshake and connection ---------------------- *)

\* Math.random().toString(36).substring(2, 15): a session id not seen before.
NewSessionId == SetMax({0} \cup {sockets[h].sessionId : h \in Handles}) + 1

\* Mutant of Middleware: the sessionId of the handshake is taken on trust.
MiddlewareTrusting(auth) ==
    IF auth # NoSid
    THEN [sessionId |-> auth,
          playerName |-> IF auth \in DOMAIN sessions THEN sessions[auth].playerName ELSE NoName,
          roomId |-> IF auth \in DOMAIN sessions THEN sessions[auth].roomId ELSE Undef]
    ELSE [sessionId |-> NewSessionId, playerName |-> NoName, roomId |-> Undef]

\* io.use: the session the handshake resolves to.
Middleware(auth) ==
    IF auth # NoSid /\ auth \in DOMAIN sessions
    THEN [sessionId |-> auth,
          playerName |-> sessions[auth].playerName,
          roomId |-> sessions[auth].roomId]
    ELSE [sessionId |-> NewSessionId, playerName |-> NoName, roomId |-> Undef]

\* Mutant of TouchSession: the connection handler no longer finds the session
\* the middleware found, and stores a new one.
TouchSessionAfresh(sid) ==
    IF sid \in DOMAIN sessions
    THEN [sessions EXCEPT ![sid] = [roomId |-> Undef, playerName |-> NoName, lastSeen |-> now]]
    ELSE sessions @@ (sid :> [roomId |-> Undef, playerName |-> NoName,
                              lastSeen |-> now])

\* io.on('connection'), "Update lastSeen".
TouchSession(sid) ==
    IF sid \in DOMAIN sessions
    THEN [sessions EXCEPT ![sid].lastSeen = now]
    ELSE sessions @@ (sid :> [roomId |-> Undef, playerName |-> NoName,
                              lastSeen |-> now])

\* Mutant of Rebound: a player is rebound only while the room is in 'lobby'.
ReboundInLobby(sock) ==
    /\ sock.roomId # Undef
    /\ sock.roomId \in DOMAIN rooms
    /\ rooms[sock.roomId].status = "lobby"
    /\ PlayerBySession(rooms[sock.roomId], sock.sessionId) # 0

\* io.on('connection'), "Handle reconnection": the test.
Rebound(sock) ==
    /\ sock.roomId # Undef
    /\ sock.roomId \in DOMAIN rooms
    /\ PlayerBySession(rooms[sock.roomId], sock.sessionId) # 0

\* Mutant of RebindPlayer: the reconnecting player is seated afresh.
RebindResettingPoints(room, sid, h) ==
    [room EXCEPT !.players[PlayerBySession(room, sid)].id = h,
                 !.players[PlayerBySession(room, sid)].points = 0]

\* player.id = socket.id, for the player of session sid.
RebindPlayer(room, sid, h) ==
    [room EXCEPT !.players[PlayerBySession(room, sid)].id = h]

\* io.on('connection'), "Handle reconnection": the rooms after it.
Rebind(h, sock) ==
    IF Rebound(sock)
    THEN [rooms EXCEPT ![sock.roomId] = RebindPlayer(rooms[sock.roomId], sock.sessionId, h)]
    ELSE rooms

\* A client connects presenting `auth`; the middleware and the connection
\* handler run back to back (the connection event is dispatched from the
\* middleware's next() before any timer can fire).
Connect(auth) ==
    LET h == Cardinality(Handles) + 1
        sock == Middleware(auth)
    IN /\ sockets' = sockets @@ (h :> [auth |-> auth,
                                       sessionId |-> sock.sessionId,
                                       roomId |-> sock.roomId])
       /\ sessions' = TouchSession(sock.sessionId)
       /\ rooms' = Rebind(h, sock)
       /\ emitted' = <<ToSocket(h, "session", sock.sessionId)>> \o
                     (IF Rebound(sock)
                      THEN <<ToSocket(h, "player-joined", sock.roomId),
                             ToRoom(sock.roomId, "player-joined", sock.roomId)>>
                      ELSE <<>>)
       /\ UNCHANGED now

\* socket.on('disconnect'): a log line; no player, room or session is touched.
\* (The model does not record that the socket is closed: a closed socket that
\* still sends is a behaviour more than the program has, never one less.)
Disconnect(h) ==
    /\ h \in Handles
    /\ emitted' = <<>>
    /\ UNCHANGED <<rooms, sessions, sockets, now>>

(* ------------------------------ handlers ------------------------------- *)

NewSession(h, rid, name) ==
    [roomId |-> rid, playerName |-> name, lastSeen |-> now]

SetSession(sid, s) ==
    IF sid \in DOMAIN sessions THEN [sessions EXCEPT ![sid] = s] ELSE sessions @@ (sid :> s)

SetRoom(rid, room) ==
    IF rid \in DOMAIN rooms THEN [rooms EXCEPT ![rid] = room] ELSE rooms @@ (rid :> room)

NewPlayer(h, name) ==
    [id |-> h, sessionId |-> sockets[h].sessionId, name |-> name, points |-> 0]

\* Mutant of NewRoom: no judge is named for round 1.
NewRoomJudgeUnset(h, rid, name) ==
    [id |-> rid,
     hostId |-> h,
     players |-> <<NewPlayer(h, name)>>,
     status |-> "lobby",
     currentRound |-> 0,
     maxRounds |-> maxRounds,
     topic |-> "",
     submissions |-> <<>>,
     votes |-> <<>>,
     winnerOfLastRound |-> NoHandle]

\* The room object create-room builds.
NewRoom(h, rid, name) ==
    [id |-> rid,
     hostId |-> h,
     players |-> <<NewPlayer(h, name)>>,
     status |-> "lobby",
     currentRound |-> 0,
     maxRounds |-> maxRounds,
     topic |-> "",
     submissions |-> <<>>,
     votes |-> <<>>,
     winnerOfLastRound |-> h]

\* socket.on('create-room'); rid is what generateRoomId() returned.
CreateRoom(h, rid, name) ==
    /\ h \in Handles
    /\ rooms' = SetRoom(rid, NewRoom(h, rid, name))
    /\ sessions' = SetSession(sockets[h].sessionId, NewSession(h, rid, name))
    /\ sockets' = [sockets EXCEPT ![h].roomId = rid]
    /\ emitted' = <<ToSocket(h, "room-created", rid)>>
    /\ UNCHANGED now

\* Mutant of JoinOutcome: the 'lobby' test is missing.
JoinOutcomeAnyPhase(h, rid) ==
    IF rid \notin DOMAIN rooms THEN "Room not found"
    ELSE IF FindIndex(rooms[rid].players, LAMBDA p : p.sessionId = sockets[h].sessionId) # 0
         THEN "rejoined"
    ELSE "joined"

\* socket.on('join-room'): which branch the handler takes.
JoinOutcome(h, rid) ==
    IF rid \notin DOMAIN rooms THEN "Room not found"
    ELSE IF PlayerBySession(rooms[rid], sockets[h].sessionId) # 0 THEN "rejoined"
    ELSE IF rooms[rid].status # "lobby" THEN "Game already started"
    ELSE "joined"

\* existingPlayer.id = socket.id
RejoinPlayer(room, sid, h) ==
    [room EXCEPT !.players[PlayerBySession(room, sid)].id = h]

JoinRoom(h, rid, name) ==
    /\ h \in Handles
    /\ LET out == JoinOutcome(h, rid) IN
       CASE out = "Room not found" ->
              /\ emitted' = <<ToSocket(h, "error", "Room not found")>>
              /\ UNCHANGED <<rooms, sessions, sockets>>
         [] out = "rejoined" ->
              /\ rooms' = [rooms EXCEPT ![rid] = RejoinPlayer(rooms[rid], sockets[h].sessionId, h)]
              /\ sockets' = [sockets EXCEPT ![h].roomId = rid]
              /\ emitted' = <<ToRoom(rid, "player-joined", rid)>>
              /\ UNCHANGED sessions
         [] out = "Game already started" ->
              /\ emitted' = <<ToSocket(h, "error", "Game already started")>>
              /\ UNCHANGED <<rooms, sessions, sockets>>
         [] out = "joined" ->
              /\ rooms' = [rooms EXCEPT ![rid].players = Append(@, NewPlayer(h, name))]
              /\ sessions' = SetSession(sockets[h].sessionId, NewSession(h, rid, name))
              /\ sockets' = [sockets EXCEPT ![h].roomId = rid]
              /\ emitted' = <<ToRoom(rid, "player-joined", rid)>>
    /\ UNCHANGED now

\* Mutant of StartGameAccepts: the caller is not compared with hostId.
StartGameAcceptsAnyone(h, rid) == rid \in DOMAIN rooms

\* socket.on('start-game').
StartGameAccepts(h, rid) == rid \in DOMAIN rooms /\ rooms[rid].hostId = h

\* The room after an accepted start-game.
GameStarted(room) == [room EXCEPT !.status = "topic-selection", !.currentRound = 1]

StartGame(h, rid) ==
    /\ h \in Handles
    /\ IF StartGameAccepts(h, rid)
       THEN /\ rooms' = [rooms EXCEPT ![rid] = GameStarted(rooms[rid])]
            /\ emitted' = <<ToRoom(rid, "game-started", rid)>>
       ELSE /\ emitted' = <<>>
            /\ UNCHANGED rooms
    /\ UNCHANGED <<sessions, sockets, now>>

\* socket.on('submit-topic'): the caller is the judge.
SubmitTopicAccepts(h, rid) ==
    /\ rid \in DOMAIN rooms
    /\ \/ rooms[rid].winnerOfLastRound = h
       \/ rooms[rid].hostId = h /\ rooms[rid].winnerOfLastRound = NoHandle

\* Mutant of TopicSubmitted: the submissions of the round before are kept.
TopicSubmittedKeepingSubmissions(room, topic) ==
    [room EXCEPT !.topic = topic, !.status = "gif-selection"]

\* The room after an accepted submit-topic.
TopicSubmitted(room, topic) ==
    [room EXCEPT !.topic = topic, !.status = "gif-selection", !.submissions = <<>>]

SubmitTopic(h, rid, topic) ==
    /\ h \in Handles
    /\ IF SubmitTopicAccepts(h, rid)
       THEN /\ rooms' = [rooms EXCEPT ![rid] = TopicSubmitted(rooms[rid], topic)]
            /\ emitted' = <<ToRoom(rid, "topic-submitted", rid)>>
       ELSE /\ emitted' = <<>>
            /\ UNCHANGED rooms
    /\ UNCHANGED <<sessions, sockets, now>>

\* Mutant of UpsertSubmission: every submit-gif is pushed.
PushSubmission(subs, h, gifUrl) == Append(subs, [playerId |-> h, gifUrl |-> gifUrl])

\* socket.on('submit-gif'), "Update submission if player already submitted".
UpsertSubmission(subs, h, gifUrl) ==
    LET existingIdx == FindIndex(subs, LAMBDA s : s.playerId = h)
    IN IF existingIdx # 0
       THEN [subs EXCEPT ![existingIdx].gifUrl = gifUrl]
       ELSE Append(subs, [playerId |-> h, gifUrl |-> gifUrl])

\* Mutant of GifSubmitted: the votes of the round before are kept.
GifSubmittedKeepingVotes(room, h, gifUrl) ==
    IF room.status = "gif-selection"
    THEN LET subs == UpsertSubmission(room.submissions, h, gifUrl)
         IN IF Len(subs) = Len(room.players)
            THEN [room EXCEPT !.submissions = subs, !.status = "voting"]
            ELSE [room EXCEPT !.submissions = subs]
    ELSE room

\* The room after a submit-gif from h (the handler's effect on the room).
GifSubmitted(room, h, gifUrl) ==
    IF room.status = "gif-selection"
    THEN LET subs == UpsertSubmission(room.submissions, h, gifUrl)
         IN IF Len(subs) = Len(room.players)
            THEN [room EXCEPT !.submissions = subs, !.status = "voting", !.votes = <<>>]
            ELSE [room EXCEPT !.submissions = subs]
    ELSE room

SubmitGif(h, rid, gifUrl) ==
    /\ h \in Handles
    /\ IF rid \in DOMAIN rooms /\ rooms[rid].status = "gif-selection"
       THEN LET room == GifSubmitted(rooms[rid], h, gifUrl)
            IN /\ rooms' = [rooms EXCEPT ![rid] = room]
               /\ emitted' = IF room.status = "voting"
                             THEN <<ToRoom(rid, "all-gifs-submitted", rid)>>
                             ELSE <<ToRoom(rid, "gif-submitted",
                                           <<Len(room.players), Len(room.submissions)>>)>>
       ELSE /\ emitted' = <<>>
            /\ UNCHANGED rooms
    /\ UNCHANGED <<sessions, sockets, now>>

(* ------------------------------ the tally ------------------------------ *)

\* The keys of voteCounts in the order Object.entries yields them: the order
\* of first insertion (a socket id is never an array-index-like string).
RECURSIVE VoteKeys(_)
VoteKeys(votes) ==
    IF votes = <<>> THEN <<>>
    ELSE LET front == VoteKeys(SubSeq(votes, 1, Len(votes) - 1))
             k == votes[Len(votes)].votedPlayerId
         IN IF \E i \in 1..Len(front) : front[i] = k THEN front ELSE Append(front, k)

\* voteCounts[k]
VoteCount(votes, k) == Cardinality({i \in 1..Len(votes) : votes[i].votedPlayerId = k})

\* Mutant of WinnersFrom: of the candidates with the same count the first
\* one met stays the only winner.
RECURSIVE WinnersFromFirstOfTie(_, _, _, _, _)
WinnersFromFirstOfTie(votes, keys, i, maxVotes, winners) ==
    IF i > Len(keys) THEN winners
    ELSE LET count == VoteCount(votes, keys[i])
         IN IF count > maxVotes
            THEN WinnersFromFirstOfTie(votes, keys, i + 1, count, <<keys[i]>>)
            ELSE WinnersFromFirstOfTie(votes, keys, i + 1, maxVotes, winners)

\* The forEach over Object.entries(voteCounts), from entry i on.
RECURSIVE WinnersFrom(_, _, _, _, _)
WinnersFrom(votes, keys, i, maxVotes, winners) ==
    IF i > Len(keys) THEN winners
    ELSE LET count == VoteCount(votes, keys[i])
         IN IF count > maxVotes
            THEN WinnersFrom(votes, keys, i + 1, count, <<keys[i]>>)
            ELSE IF count = maxVotes
            THEN WinnersFrom(votes, keys, i + 1, maxVotes, Append(winners, keys[i]))
            ELSE WinnersFrom(votes, keys, i + 1, maxVotes, winners)

\* Mutant of Winners: every candidate that got a vote wins.
WinnersAllCandidates(votes) == VoteKeys(votes)

Winners(votes) == WinnersFrom(votes, VoteKeys(votes), 1, 0, <<>>)

\* "Award points": one winner.
AwardOne(players, winnerId) ==
    LET p == FindIndex(players, LAMBDA q : q.id = winnerId)
    IN IF p # 0 THEN [players EXCEPT ![p].points = @ + 1] ELSE players

\* "Award points": winners.forEach.
RECURSIVE AwardPoints(_, _)
AwardPoints(players, winners) ==
    IF winners = <<>> THEN players
    ELSE AwardPoints(AwardOne(players, Head(winners)), Tail(winners))

\* Mutant of StatusAfterTally: the last round is one late.
StatusAfterTallyOneLate(room) ==
    IF room.currentRound > room.maxRounds THEN "game-over" ELSE "reveal"

\* The status the tally leaves.
StatusAfterTally(room) ==
    IF room.currentRound >= room.maxRounds THEN "game-over" ELSE "reveal"

\* The room after the tally of its (complete) votes.
Tally(room) ==
    LET winners == Winners(room.votes)
    IN [room EXCEPT !.players = AwardPoints(room.players, winners),
                    !.winnerOfLastRound = winners[1],
                    !.status = StatusAfterTally(room)]

\* Mutant of IsSelfVote: the self-vote test is missing.
SelfVoteNotTested(h, votedPlayerId) == FALSE

\* socket.on('submit-vote'), "Prevent self-voting".
IsSelfVote(h, votedPlayerId) == votedPlayerId = h

UpsertVote(votes, h, votedPlayerId) ==
    LET existingVoteIdx == FindIndex(votes, LAMBDA v : v.voterId = h)
    IN IF existingVoteIdx # 0
       THEN [votes EXCEPT ![existingVoteIdx].votedPlayerId = votedPlayerId]
       ELSE Append(votes, [voterId |-> h, votedPlayerId |-> votedPlayerId])

\* The submit-vote from h completes the vote of room rid: the tally runs.
TallyDue(h, rid, votedPlayerId) ==
    /\ rid \in DOMAIN rooms
    /\ rooms[rid].status = "voting"
    /\ ~IsSelfVote(h, votedPlayerId)
    /\ Len(UpsertVote(rooms[rid].votes, h, votedPlayerId)) = Len(rooms[rid].players)

\* The room after a submit-vote from h (the handler's effect on the room).
VoteSubmitted(room, h, votedPlayerId) ==
    IF room.status = "voting" /\ ~IsSelfVote(h, votedPlayerId)
    THEN LET voted == [room EXCEPT !.votes = UpsertVote(room.votes, h, votedPlayerId)]
         IN IF Len(voted.votes) = Len(room.players) THEN Tally(voted) ELSE voted
    ELSE room

SubmitVote(h, rid, votedPlayerId) ==
    /\ h \in Handles
    /\ IF rid \in DOMAIN rooms /\ rooms[rid].status = "voting"
          /\ ~IsSelfVote(h, votedPlayerId)
       THEN LET votes == UpsertVote(rooms[rid].votes, h, votedPlayerId)
            IN IF Len(votes) = Len(rooms[rid].players)
               THEN /\ rooms' = [rooms EXCEPT ![rid] = VoteSubmitted(rooms[rid], h, votedPlayerId)]
                    /\ emitted' = <<ToRoom(rid, "round-ended",
                                           [winners |-> Winners(votes),
                                            voteCounts |-> [k \in {votes[i].votedPlayerId :
                                                                    i \in 1..Len(votes)} |->
                                                            VoteCount(votes, k)]])>>
               ELSE /\ rooms' = [rooms EXCEPT ![rid] = VoteSubmitted(rooms[rid], h, votedPlayerId)]
                    /\ emitted' = <<ToRoom(rid, "vote-submitted",
                                           <<Len(rooms[rid].players), Len(votes)>>)>>
       ELSE /\ emitted' = <<>>
            /\ UNCHANGED rooms
    /\ UNCHANGED <<sessions, sockets, now>>

\* Mutant of NextRoundAccepts: the phase tested is the wrong one.
NextRoundAcceptsInVoting(h, rid) == rid \in DOMAIN rooms /\ rooms[rid].status = "voting"

\* socket.on('next-round').
NextRoundAccepts(h, rid) == rid \in DOMAIN rooms /\ rooms[rid].status = "reveal"

\* The room after an accepted next-round.
RoundAdvanced(room) ==
    [room EXCEPT !.currentRound = @ + 1, !.status = "topic-selection",
                 !.submissions = <<>>, !.votes = <<>>]

NextRound(h, rid) ==
    /\ h \in Handles
    /\ IF NextRoundAccepts(h, rid)
       THEN /\ rooms' = [rooms EXCEPT ![rid] = RoundAdvanced(rooms[rid])]
            /\ emitted' = <<ToRoom(rid, "new-round", rid)>>
       ELSE /\ emitted' = <<>>
            /\ UNCHANGED rooms
    /\ UNCHANGED <<sessions, sockets, now>>

(* ------------------------- the clock, the sweeper ---------------------- *)

\* A minute passes.
Tick ==
    /\ now < MaxNow
    /\ now' = now + 1
    /\ UNCHANGED <<rooms, sessions, sockets, emitted>>

\* Mutant of Expired: a session is dropped at the threshold already.
ExpiredAtThreshold(session) == now - session.lastSeen >= SESSION_EXPIRY

\* The sweeper's test on one session.
Expired(session) == now - session.lastSeen > SESSION_EXPIRY

\* The setInterval callback: one pass over the sessions.
Sweep ==
    /\ sessions' = [sid \in {x \in DOMAIN sessions : ~Expired(sessions[x])} |-> sessions[sid]]
    /\ emitted' = <<>>
    /\ UNCHANGED <<rooms, sockets, now>>

(* --------------------------- specifications ---------------------------- *)

\* Points are capped for the check: no tally once a player holds MaxPoints.
PointsBelowCap(room) == \A i \in 1..Len(room.players) : room.players[i].points < MaxPoints

\* The submit-vote from h keeps the points of room rid within the cap.
WithinCap(h, rid, votedPlayerId) ==
    TallyDue(h, rid, votedPlayerId) => PointsBelowCap(rooms[rid])

\* Every handler, with any payload a socket can send; the sweeper needs the
\* clock to move and is left to SpecSweep.
Next ==
    \/ \E auth \in {NoSid} \cup DOMAIN sessions :
          Cardinality(Handles) < MaxSockets /\ Connect(auth)
    \/ \E h \in Handles : Disconnect(h)
    \/ \E h \in Handles, rid \in RoomIds, name \in Names : CreateRoom(h, rid, name)
    \/ \E h \in Handles, rid \in RoomIds, name \in Names : JoinRoom(h, rid, name)
    \/ \E h \in Handles, rid \in RoomIds : StartGame(h, rid)
    \/ \E h \in Handles, rid \in RoomIds, topic \in Topics : SubmitTopic(h, rid, topic)
    \/ \E h \in Handles, rid \in RoomIds, gifUrl \in Gifs : SubmitGif(h, rid, gifUrl)
    \/ \E h \in Handles, rid \in RoomIds, v \in VoteTargets :
          WithinCap(h, rid, v) /\ SubmitVote(h, rid, v)
    \/ \E h \in Handles, rid \in RoomIds : NextRound(h, rid)

Spec == Init /\ [][Next]_vars

(* ------------------------------ the client ----------------------------- *)

\* The page shows the game screen of room rid: it holds a room, which it got
\* from room-created or player-joined (the server set socket.roomId with it).
ClientInRoom(h, rid) == rid \in DOMAIN rooms /\ sockets[h].roomId = rid

\* The page shows the join screen.
ClientOnJoinScreen(h) == sockets[h].roomId = Undef

\* The lobby's start button is shown to the host and enabled from 2 players on.
ClientCanStart(h, rid) ==
    /\ ClientInRoom(h, rid)
    /\ rooms[rid].status = "lobby"
    /\ rooms[rid].hostId = h
    /\ ~(Len(rooms[rid].players) < 2)

\* The topic form is shown in 'topic-selection' to the client whose turn it is.
ClientCanSubmitTopic(h, rid) ==
    /\ ClientInRoom(h, rid)
    /\ rooms[rid].status = "topic-selection"
    /\ rooms[rid].winnerOfLastRound = h

\* The gif grid is shown in 'gif-selection'.
ClientCanSubmitGif(h, rid) == ClientInRoom(h, rid) /\ rooms[rid].status = "gif-selection"

\* What the voting grid sends: the playerId of a submission shown that is not
\* the client's own socket id.
GridTargets(h, rid) ==
    IF ClientInRoom(h, rid) /\ rooms[rid].status = "voting"
    THEN {rooms[rid].submissions[i].playerId : i \in 1..Len(rooms[rid].submissions)} \ {h}
    ELSE {}

\* The reveal's next-round button is shown to the host.
ClientCanAdvance(h, rid) ==
    /\ ClientInRoom(h, rid)
    /\ rooms[rid].status = "reveal"
    /\ rooms[rid].hostId = h

\* The server driven by the shipped client only: every event is one the page
\* sends from the screen it shows, and generateRoomId() does not collide.
NextClient ==
    \/ \E auth \in {NoSid} \cup DOMAIN sessions :
          Cardinality(Handles) < MaxClientSockets /\ Connect(auth)
    \/ \E h \in Handles : Disconnect(h)
    \/ \E h \in Handles, rid \in RoomIds, name \in Names :
          ClientOnJoinScreen(h) /\ rid \notin DOMAIN rooms /\ CreateRoom(h, rid, name)
    \/ \E h \in Handles, rid \in RoomIds, name \in Names :
          ClientOnJoinScreen(h) /\ JoinRoom(h, rid, name)
    \/ \E h \in Handles, rid \in RoomIds : ClientCanStart(h, rid) /\ StartGame(h, rid)
    \/ \E h \in Handles, rid \in RoomIds, topic \in Topics :
          ClientCanSubmitTopic(h, rid) /\ SubmitTopic(h, rid, topic)
    \/ \E h \in Handles, rid \in RoomIds, gifUrl \in ClientGifs :
          ClientCanSubmitGif(h, rid) /\ SubmitGif(h, rid, gifUrl)
    \/ \E h \in Handles, rid \in RoomIds :
          \E v \in GridTargets(h, rid) : WithinCap(h, rid, v) /\ SubmitVote(h, rid, v)
    \/ \E h \in Handles, rid \in RoomIds : ClientCanAdvance(h, rid) /\ NextRound(h, rid)

SpecClient == Init /\ [][NextClient]_vars

\* Three clients that never reconnect, each on the page the client shows it,
\* except that the submit-topic event may come from any page of the room:
\* the server's handler takes the event from every socket.
NextPlay ==
    \/ Cardinality(Handles) < MaxClientSockets /\ Connect(NoSid)
    \/ \E h \in Handles, rid \in RoomIds, name \in Names :
          ClientOnJoinScreen(h) /\ rid \notin DOMAIN rooms /\ CreateRoom(h, rid, name)
    \/ \E h \in Handles, rid \in RoomIds, name \in Names :
          ClientOnJoinScreen(h) /\ JoinRoom(h, rid, name)
    \/ \E h \in Handles, rid \in RoomIds : ClientCanStart(h, rid) /\ StartGame(h, rid)
    \/ \E h \in Handles, rid \in RoomIds, topic \in Topics :
          /\ ClientInRoom(h, rid)
          /\ rooms[rid].status = "topic-selection"
          /\ SubmitTopic(h, rid, topic)
    \/ \E h \in Handles, rid \in RoomIds, gifUrl \in ClientGifs :
          ClientCanSubmitGif(h, rid) /\ SubmitGif(h, rid, gifUrl)
    \/ \E h \in Handles, rid \in RoomIds :
          \E v \in GridTargets(h, rid) : WithinCap(h, rid, v) /\ SubmitVote(h, rid, v)
    \/ \E h \in Handles, rid \in RoomIds : ClientCanAdvance(h, rid) /\ NextRound(h, rid)

SpecPlay == Init /\ [][NextPlay]_vars

\* Cooperative play: clients that connect once and each do what their page
\* offers.  The host presses start, the judge sends the topic, a player sends
\* a gif, a player votes for a gif of somebody else, the host presses next.
CoopStart(h, rid) == h \in Handles /\ ClientCanStart(h, rid) /\ StartGame(h, rid)

CoopTopic(h, rid) ==
    /\ h \in Handles
    /\ \E topic \in Topics : ClientCanSubmitTopic(h, rid) /\ SubmitTopic(h, rid, topic)

CoopGif(h, rid) ==
    /\ h \in Handles
    /\ \E gifUrl \in ClientGifs : ClientCanSubmitGif(h, rid) /\ SubmitGif(h, rid, gifUrl)

CoopVote(h, rid) == h \in Handles /\ \E v \in GridTargets(h, rid) : SubmitVote(h, rid, v)

CoopAdvance(h, rid) == h \in Handles /\ ClientCanAdvance(h, rid) /\ NextRound(h, rid)

NextCoop ==
    \/ Cardinality(Handles) < MaxSockets /\ Connect(NoSid)
    \/ \E h \in Handles, rid \in RoomIds, name \in Names :
          ClientOnJoinScreen(h) /\ rid \notin DOMAIN rooms /\ CreateRoom(h, rid, name)
    \/ \E h \in Handles, rid \in RoomIds, name \in Names :
          ClientOnJoinScreen(h) /\ JoinRoom(h, rid, name)
    \/ \E h \in Handles, rid \in RoomIds : CoopStart(h, rid)
    \/ \E h \in Handles, rid \in RoomIds : CoopTopic(h, rid)
    \/ \E h \in Handles, rid \in RoomIds : CoopGif(h, rid)
    \/ \E h \in Handles, rid \in RoomIds : CoopVote(h, rid)
    \/ \E h \in Handles, rid \in RoomIds : CoopAdvance(h, rid)

\* What the page of client h offers it in room rid; the phases make at most
\* one of the five possible at a time.
CoopPlay(h, rid) ==
    \/ CoopStart(h, rid)
    \/ CoopTopic(h, rid)
    \/ CoopGif(h, rid)
    \/ CoopVote(h, rid)
    \/ CoopAdvance(h, rid)

\* No client stalls: what its page offers is eventually done.
CoopFairness == \A h \in 1..MaxSockets, rid \in RoomIds : WF_vars(CoopPlay(h, rid))

SpecCoop == Init /\ [][NextCoop]_vars /\ CoopFairness

\* The session ids handed out so far: what a client can hold in localStorage.
IssuedSids == {sockets[h].sessionId : h \in Handles}

\* The sessions and the sweeper over time: connections (presenting no
\* sessionId, a live one or an evicted one), rooms, joins and starts.
NextSweep ==
    \/ \E auth \in {NoSid} \cup IssuedSids :
          Cardinality(Handles) < MaxSockets /\ Connect(auth)
    \/ \E h \in Handles, rid \in RoomIds, name \in Names : CreateRoom(h, rid, name)
    \/ \E h \in Handles, rid \in RoomIds, name \in Names : JoinRoom(h, rid, name)
    \/ \E h \in Handles, rid \in RoomIds : StartGame(h, rid)
    \/ Tick
    \/ Sweep

SpecSweep == Init /\ [][NextSweep]_vars

(* ------------------------------ properties ----------------------------- *)

\* The step takes room rid into 'voting'.
EntersVoting(rid) ==
    /\ rid \in DOMAIN rooms'
    /\ rooms'[rid].status = "voting"
    /\ rid \notin DOMAIN rooms \/ rooms[rid].status # "voting"

\* The step is a submit-gif on room rid.
SubmitGifStep(rid) == \E h \in Handles, gifUrl \in Gifs : SubmitGif(h, rid, gifUrl)

\* The step is the submit-vote that completes the voting phase of room rid.
VotingCompletes(rid) ==
    /\ rid \in DOMAIN rooms
    /\ rooms[rid].status = "voting"
    /\ \E h \in Handles, v \in VoteTargets : SubmitVote(h, rid, v)
    /\ Len(rooms'[rid].votes) = Len(rooms'[rid].players)

\* The step is a create-room that generateRoomId() gave the id rid.
CreateRoomStep(rid) == \E h \in Handles, name \in Names : CreateRoom(h, rid, name)

RECURSIVE SumPoints(_)
SumPoints(players) ==
    IF players = <<>> THEN 0 ELSE Head(players).points + SumPoints(Tail(players))

Points(room) == [i \in 1..Len(room.players) |-> room.players[i].points]

\* The candidates of a complete vote whose count is the maximum.
Candidates(votes) == {votes[i].votedPlayerId : i \in 1..Len(votes)}
TopCandidates(votes) ==
    {k \in Candidates(votes) : \A c \in Candidates(votes) : VoteCount(votes, c) <= VoteCount(votes, k)}

Range(seq) == {seq[i] : i \in 1..Len(seq)}

\* C1: in every state of every room submissions.length <= players.length, and
\* a room's status becomes 'voting' only in a submit-gif step after which
\* submissions.length = players.length.
SubmissionsWithinPlayers ==
    \A rid \in DOMAIN rooms : Len(rooms[rid].submissions) <= Len(rooms[rid].players)

C1_SubmissionsBounded ==
    /\ SubmissionsWithinPlayers
    /\ [][/\ SubmissionsWithinPlayers'
          /\ \A rid \in RoomIds :
                EntersVoting(rid) =>
                   /\ rid \in DOMAIN rooms
                   /\ SubmitGifStep(rid)
                   /\ Len(rooms'[rid].submissions) = Len(rooms'[rid].players)]_vars

\* A two-player room that the second submission has just taken into 'voting'.
C1_Witness ==
    \E rid \in DOMAIN rooms :
       /\ rooms[rid].status = "voting"
       /\ Len(rooms[rid].players) = 2
       /\ Len(rooms[rid].submissions) = 2
       /\ emitted = <<ToRoom(rid, "all-gifs-submitted", rid)>>

\* C2: when a voting phase completes, the winner set is exactly the set of
\* candidates with the maximal vote count, every winner is a player whose
\* points rise by exactly 1, no other player's points change, and the points
\* awarded in the step add up to the size of the winner set.
C2_TallyAwardsEveryWinner ==
    [][\A rid \in RoomIds :
          VotingCompletes(rid) =>
             LET before == rooms[rid].players
                 after == rooms'[rid].players
                 W == TopCandidates(rooms'[rid].votes)
             IN /\ Range(emitted'[1].arg.winners) = W
                /\ \A w \in W : \E i \in 1..Len(before) :
                      before[i].id = w /\ after[i].points = before[i].points + 1
                /\ \A i \in 1..Len(before) :
                      before[i].id \notin W => after[i].points = before[i].points
                /\ SumPoints(after) - SumPoints(before) = Cardinality(W)]_vars

\* C3: no stored vote has voterId = votedPlayerId, and a submit-vote naming the
\* caller's own handle leaves every room unchanged.
NoSelfVoteStored ==
    \A rid \in DOMAIN rooms : \A i \in 1..Len(rooms[rid].votes) :
       rooms[rid].votes[i].voterId # rooms[rid].votes[i].votedPlayerId

C3_SelfVotesDropped ==
    /\ NoSelfVoteStored
    /\ [][/\ NoSelfVoteStored'
          /\ \A h \in Handles, rid \in RoomIds :
                SubmitVote(h, rid, h) => /\ rooms' = rooms
                                         /\ emitted' = <<>>]_vars

\* A room in 'voting' holding a vote, right after a handler that did nothing.
C3_Witness ==
    \E rid \in DOMAIN rooms :
       /\ rooms[rid].status = "voting"
       /\ Len(rooms[rid].players) = 2
       /\ Len(rooms[rid].votes) = 1
       /\ emitted = <<>>

\* r2 is r1 with the id of the player of session sid set to h, and nothing else.
OnlyRebound(r1, r2, sid, h) ==
    /\ [r2 EXCEPT !.players = r1.players] = r1
    /\ Len(r2.players) = Len(r1.players)
    /\ \A i \in 1..Len(r1.players) :
          r2.players[i] = IF r1.players[i].sessionId = sid
                          THEN [r1.players[i] EXCEPT !.id = h]
                          ELSE r1.players[i]

\* The step is a connection that presents a session seated in a room.
Reconnects(auth) == Connect(auth) /\ Rebound(Middleware(auth))

\* C4: a reconnection (a new connection presenting the sessionId, or a join-room
\* from a session already seated) changes, in the room, the id of that
\* session's player to the new handle and nothing else: points, number of
\* players, status and every other field stay; the other rooms stay.
C4_ReconnectOnlyRebinds ==
    [][/\ \A auth \in DOMAIN sessions :
             Reconnects(auth) =>
                /\ DOMAIN rooms' = DOMAIN rooms
                /\ \A rid \in DOMAIN rooms :
                      IF rid = sessions[auth].roomId
                      THEN OnlyRebound(rooms[rid], rooms'[rid], auth, Cardinality(Handles) + 1)
                      ELSE rooms'[rid] = rooms[rid]
       /\ \A h \in Handles, rid \in DOMAIN rooms, name \in Names :
             JoinRoom(h, rid, name) /\ PlayerBySession(rooms[rid], sockets[h].sessionId) # 0 =>
                /\ DOMAIN rooms' = DOMAIN rooms
                /\ \A other \in DOMAIN rooms :
                      IF other = rid
                      THEN OnlyRebound(rooms[rid], rooms'[rid], sockets[h].sessionId, h)
                      ELSE rooms'[other] = rooms[other]]_vars

\* A player holding a point has just reconnected, with a new handle, into a
\* two-player room in 'reveal'.
C4_Witness ==
    \E rid \in DOMAIN rooms, h \in Handles :
       /\ Len(emitted) = 3
       /\ emitted[2] = ToSocket(h, "player-joined", rid)
       /\ rooms[rid].status = "reveal"
       /\ Len(rooms[rid].players) = 2
       /\ \E i \in 1..2 : rooms[rid].players[i].id = h /\ rooms[rid].players[i].points = 1

\* C5: currentRound of a room never decreases and never exceeds maxRounds, and
\* each accepted next-round raises it by exactly 1.
C5_RoundMonotonic ==
    [][\A rid \in DOMAIN rooms :
          ~CreateRoomStep(rid) =>
             /\ rid \in DOMAIN rooms'
             /\ rooms'[rid].currentRound >= rooms[rid].currentRound
             /\ rooms'[rid].currentRound <= rooms'[rid].maxRounds
             /\ \A h \in Handles :
                   NextRound(h, rid) /\ NextRoundAccepts(h, rid) =>
                      rooms'[rid].currentRound = rooms[rid].currentRound + 1]_vars

\* The step takes room rid into 'game-over'.
BecomesGameOver(rid) ==
    /\ rid \in DOMAIN rooms'
    /\ rooms'[rid].status = "game-over"
    /\ rid \notin DOMAIN rooms \/ rooms[rid].status # "game-over"

\* C6: the step that completes a voting phase leaves 'game-over' if
\* currentRound >= maxRounds and 'reveal' otherwise, and no other step takes a
\* room into 'game-over'.
C6_GameOverAtTally ==
    [][\A rid \in RoomIds :
          /\ VotingCompletes(rid) =>
                rooms'[rid].status = IF rooms[rid].currentRound >= rooms[rid].maxRounds
                                     THEN "game-over" ELSE "reveal"
          /\ BecomesGameOver(rid) =>
                /\ VotingCompletes(rid)
                /\ rooms[rid].currentRound >= rooms[rid].maxRounds]_vars

\* A two-player room whose round 10 of 10 has just been tallied.
C6_Witness ==
    \E rid \in DOMAIN rooms :
       /\ rooms[rid].status = "game-over"
       /\ rooms[rid].currentRound = 10
       /\ Len(rooms[rid].players) = 2
       /\ Len(emitted) = 1 /\ emitted[1].ev = "round-ended"

\* C7: once a room is in 'game-over', no start-game, submit-topic, submit-gif,
\* submit-vote, next-round, join-room or reconnection changes its status, its
\* currentRound or its players' points.
C7_GameOverTerminal ==
    [][\A rid \in DOMAIN rooms :
          rooms[rid].status = "game-over" /\ ~CreateRoomStep(rid) =>
             /\ rid \in DOMAIN rooms'
             /\ rooms'[rid].status = "game-over"
             /\ rooms'[rid].currentRound = rooms[rid].currentRound
             /\ Points(rooms'[rid]) = Points(rooms[rid])]_vars

\* Every player of the room, taken by sessionId, is the sender of exactly one
\* of the entries whose senders (connection handles) are ids.
OneEntryPerPlayer(room, ids) ==
    \A i \in 1..Len(room.players) :
       Cardinality({j \in 1..Len(ids) :
                       sockets[ids[j]].sessionId = room.players[i].sessionId}) = 1

SubmitterIds(room) == [j \in 1..Len(room.submissions) |-> room.submissions[j].playerId]
VoterIds(room) == [j \in 1..Len(room.votes) |-> room.votes[j].voterId]

\* C8: a room enters 'voting' only when every player (by sessionId) has exactly
\* one submission, and a tally runs only when every player has exactly one
\* vote; a re-submission, also after a reconnection, never adds a second entry.
C8_QuorumOfPlayers ==
    [][\A rid \in RoomIds :
          /\ EntersVoting(rid) => OneEntryPerPlayer(rooms'[rid], SubmitterIds(rooms'[rid]))
          /\ VotingCompletes(rid) => OneEntryPerPlayer(rooms'[rid], VoterIds(rooms'[rid]))]_vars

\* C9: a join-room to an id no room has answers the caller 'Room not found';
\* a join-room to a room that has left 'lobby', from a session that is not a
\* player of it, answers 'Game already started'; both change no room and no
\* session.
C9_JoinErrors ==
    [][\A h \in Handles, rid \in RoomIds, name \in Names :
          JoinRoom(h, rid, name) =>
             /\ rid \notin DOMAIN rooms =>
                   /\ emitted' = <<ToSocket(h, "error", "Room not found")>>
                   /\ UNCHANGED <<rooms, sessions>>
             /\ (/\ rid \in DOMAIN rooms
                 /\ rooms[rid].status # "lobby"
                 /\ \A i \in 1..Len(rooms[rid].players) :
                       rooms[rid].players[i].sessionId # sockets[h].sessionId) =>
                   /\ emitted' = <<ToSocket(h, "error", "Game already started")>>
                   /\ UNCHANGED <<rooms, sessions>>]_vars

\* A socket of another session has just been refused by a room past 'lobby'.
C9_Witness ==
    \E rid \in DOMAIN rooms, h \in Handles :
       /\ emitted = <<ToSocket(h, "error", "Game already started")>>
       /\ rooms[rid].status = "gif-selection"
       /\ \A i \in 1..Len(rooms[rid].players) :
             rooms[rid].players[i].sessionId # sockets[h].sessionId

\* C10: a start-game on a room with fewer than 2 players leaves it in 'lobby'
\* with currentRound 0.
C10_StartNeedsTwoPlayers ==
    [][\A h \in Handles, rid \in DOMAIN rooms :
          (/\ StartGame(h, rid)
           /\ Len(rooms[rid].players) < 2
           /\ rooms[rid].status = "lobby"
           /\ rooms[rid].currentRound = 0) =>
             /\ rooms'[rid].status = "lobby"
             /\ rooms'[rid].currentRound = 0]_vars

\* C11: a next-round takes effect only from the host's handle in 'reveal',
\* where it adds 1 to currentRound, empties submissions and votes and sets
\* 'topic-selection'; from anyone else, or in another phase, the room is
\* unchanged.
C11_NextRoundHostInReveal ==
    [][\A h \in Handles, rid \in DOMAIN rooms :
          NextRound(h, rid) =>
             IF rooms[rid].hostId = h /\ rooms[rid].status = "reveal"
             THEN rooms'[rid] = [rooms[rid] EXCEPT !.currentRound = @ + 1,
                                                   !.submissions = <<>>,
                                                   !.votes = <<>>,
                                                   !.status = "topic-selection"]
             ELSE rooms'[rid] = rooms[rid]]_vars

\* C12: a submit-topic received in a phase other than 'topic-selection' leaves
\* the room unchanged, whoever sends it.
C12_TopicOnlyInTopicSelection ==
    [][\A h \in Handles, rid \in DOMAIN rooms, topic \in Topics :
          (SubmitTopic(h, rid, topic) /\ rooms[rid].status # "topic-selection") =>
             rooms'[rid] = rooms[rid]]_vars

\* The judge of the room: the winner of the last round, the host while there
\* is none.
IsJudge(h, rid) ==
    \/ rooms[rid].winnerOfLastRound = h
    \/ rooms[rid].winnerOfLastRound = NoHandle /\ rooms[rid].hostId = h

\* C13: a start-game from a handle that is not hostId and a submit-topic from
\* a handle that is not the judge change no room and emit nothing.
C13_UnauthorizedIgnored ==
    [][\A h \in Handles, rid \in DOMAIN rooms :
          /\ (StartGame(h, rid) /\ rooms[rid].hostId # h) =>
                UNCHANGED rooms /\ emitted' = <<>>
          /\ \A topic \in Topics :
                (SubmitTopic(h, rid, topic) /\ ~IsJudge(h, rid)) =>
                   UNCHANGED rooms /\ emitted' = <<>>]_vars

\* A two-player room in 'topic-selection' after an event that was ignored.
C13_Witness ==
    \E rid \in DOMAIN rooms :
       /\ rooms[rid].status = "topic-selection"
       /\ Len(rooms[rid].players) = 2
       /\ rooms[rid].submissions = <<>>
       /\ emitted = <<>>

\* C14: create-room yields a room in 'lobby' with currentRound 0, maxRounds 10,
\* no submissions and no votes, the creator as its only player with 0 points,
\* and hostId = winnerOfLastRound = the creator's handle; in round 1, with no
\* reconnects, the creator's submit-topic is accepted and nobody else's is.
C14_CreatorJudgesRoundOne ==
    [][/\ \A h \in Handles, rid \in RoomIds, name \in Names :
             CreateRoom(h, rid, name) =>
                /\ rooms'[rid].status = "lobby"
                /\ rooms'[rid].currentRound = 0
                /\ rooms'[rid].maxRounds = 10
                /\ rooms'[rid].submissions = <<>>
                /\ rooms'[rid].votes = <<>>
                /\ Len(rooms'[rid].players) = 1
                /\ rooms'[rid].players[1].id = h
                /\ rooms'[rid].players[1].sessionId = sockets[h].sessionId
                /\ rooms'[rid].players[1].points = 0
                /\ rooms'[rid].hostId = h
                /\ rooms'[rid].winnerOfLastRound = h
       /\ \A h \in Handles, rid \in DOMAIN rooms, topic \in Topics :
             (/\ SubmitTopic(h, rid, topic)
              /\ rooms[rid].status = "topic-selection"
              /\ rooms[rid].currentRound = 1) =>
                IF h = rooms[rid].players[1].id
                THEN /\ rooms'[rid].status = "gif-selection"
                     /\ rooms'[rid].topic = topic
                ELSE rooms'[rid] = rooms[rid]]_vars

\* The creator of a three-player room has just set the topic of round 1.
C14_Witness ==
    \E rid \in DOMAIN rooms :
       /\ emitted = <<ToRoom(rid, "topic-submitted", rid)>>
       /\ rooms[rid].status = "gif-selection"
       /\ rooms[rid].currentRound = 1
       /\ Len(rooms[rid].players) = 3
       /\ rooms[rid].winnerOfLastRound = rooms[rid].players[1].id
       /\ rooms[rid].hostId = rooms[rid].players[1].id

\* The room of the scenario: players A (host and creator), B and C, in the
\* order they took their seats.
ScenarioRoom(rid) ==
    /\ rid \in DOMAIN rooms
    /\ Len(rooms[rid].players) = 3
    /\ rooms[rid].hostId = rooms[rid].players[1].id

\* The scenario, step by step, with the topic set by the player in seat
\* `judge`: A starts; the player in seat `judge` submits the topic; the third
\* gif opens the vote; after A voted B and C voted B, B's vote for A ends the
\* round with tally {B:2, A:1}, winner B, one point for B alone,
\* winnerOfLastRound = B and status 'reveal'.
Scenario(rid, judge) ==
    LET room == rooms[rid]
        A == room.players[1].id
        B == room.players[2].id
        C == room.players[3].id
    IN /\ (StartGame(A, rid) /\ room.status = "lobby") =>
             /\ rooms'[rid].status = "topic-selection"
             /\ rooms'[rid].currentRound = 1
       /\ \A topic \in Topics :
             (/\ SubmitTopic(room.players[judge].id, rid, topic)
              /\ room.status = "topic-selection"
              /\ room.currentRound = 1) =>
                /\ rooms'[rid].status = "gif-selection"
                /\ rooms'[rid].topic = topic
       /\ \A h \in {A, B, C}, gifUrl \in Gifs :
             (/\ SubmitGif(h, rid, gifUrl)
              /\ room.status = "gif-selection"
              /\ Range(SubmitterIds(room)) = {A, B, C} \ {h}) =>
                /\ rooms'[rid].status = "voting"
                /\ Len(rooms'[rid].submissions) = 3
       /\ (/\ SubmitVote(B, rid, A)
           /\ room.status = "voting"
           /\ room.currentRound = 1
           /\ room.votes = <<[voterId |-> A, votedPlayerId |-> B],
                             [voterId |-> C, votedPlayerId |-> B]>>) =>
             /\ emitted' = <<ToRoom(rid, "round-ended",
                                    [winners |-> <<B>>, voteCounts |-> (B :> 2) @@ (A :> 1)])>>
             /\ Points(rooms'[rid]) = [Points(room) EXCEPT ![2] = @ + 1]
             /\ rooms'[rid].winnerOfLastRound = B
             /\ rooms'[rid].status = "reveal"

\* C15 as amended: the scenario with the topic submitted by A, the creator
\* and judge of round 1.
C15_ScenarioTopicByCreator ==
    [][\A rid \in RoomIds : ScenarioRoom(rid) => Scenario(rid, 1)]_vars

\* C15 as stated: A, B and C are in a room; A starts; B submits the topic; all
\* three submit a gif and the status is 'voting'; A votes B, C votes B, B votes
\* A; the tally is {B:2, A:1}, B alone wins and gains 1 point,
\* winnerOfLastRound = B and the status is 'reveal'.
C15_ScenarioTopicBySecondPlayer ==
    [][\A rid \in RoomIds : ScenarioRoom(rid) => Scenario(rid, 2)]_vars

\* The end of the scenario: round 1 of A, B and C tallied with B the winner.
C15_Witness ==
    \E rid \in DOMAIN rooms :
       /\ ScenarioRoom(rid)
       /\ rooms[rid].status = "reveal"
       /\ rooms[rid].currentRound = 1
       /\ rooms[rid].votes = <<[voterId |-> rooms[rid].players[1].id,
                                votedPlayerId |-> rooms[rid].players[2].id],
                               [voterId |-> rooms[rid].players[3].id,
                                votedPlayerId |-> rooms[rid].players[2].id],
                               [voterId |-> rooms[rid].players[2].id,
                                votedPlayerId |-> rooms[rid].players[1].id]>>
       /\ Points(rooms[rid]) = <<0, 1, 0>>
       /\ rooms[rid].winnerOfLastRound = rooms[rid].players[2].id
       /\ Len(emitted) = 1 /\ emitted[1].ev = "round-ended"

\* The connection that presents the known sessionId `auth` finds the
\* session's room, and in it a player of that session.
Reconnection(auth) ==
    /\ auth \in DOMAIN sessions
    /\ Connect(auth)
    /\ sessions[auth].roomId \in DOMAIN rooms
    /\ \E i \in 1..Len(rooms[sessions[auth].roomId].players) :
          rooms[sessions[auth].roomId].players[i].sessionId = auth

\* C16: a connection presenting a known sessionId, whose session references
\* an existing room with a player of that sessionId, makes that player's id
\* the new handle and is sent the room as it stands (status and submissions
\* as they were), in every phase; no error is emitted.
C16_ReconnectInEveryPhase ==
    [][\A auth \in DOMAIN sessions :
          Reconnection(auth) =>
             LET rid == sessions[auth].roomId
                 h == Cardinality(Handles) + 1
             IN /\ \A i \in 1..Len(rooms[rid].players) :
                      rooms[rid].players[i].sessionId = auth =>
                         rooms'[rid].players[i].id = h
                /\ rooms'[rid].status = rooms[rid].status
                /\ rooms'[rid].submissions = rooms[rid].submissions
                /\ \E k \in 1..Len(emitted') : emitted'[k] = ToSocket(h, "player-joined", rid)
                /\ \A k \in 1..Len(emitted') : emitted'[k].ev # "error"]_vars

\* A player has just reconnected in the middle of a vote and was sent the
\* room with its submissions.
C16_Witness ==
    \E rid \in DOMAIN rooms, h \in Handles :
       /\ Len(emitted) = 3
       /\ emitted[2] = ToSocket(h, "player-joined", rid)
       /\ rooms[rid].status = "voting"
       /\ rooms[rid].submissions # <<>>
       /\ \E i \in 1..Len(rooms[rid].players) : rooms[rid].players[i].id = h

\* C17: a submit-gif, or a submit-vote, delivered a second time right after
\* the first (same caller, same payload) leaves the room as the first delivery
\* left it: same submissions, votes, status, currentRound and points.
C17_RetryIdempotent ==
    [][\A h \in Handles, rid \in DOMAIN rooms :
          /\ \A gifUrl \in Gifs :
                SubmitGif(h, rid, gifUrl) =>
                   GifSubmitted(rooms'[rid], h, gifUrl) = rooms'[rid]
          /\ \A votedPlayerId \in VoteTargets :
                SubmitVote(h, rid, votedPlayerId) =>
                   VoteSubmitted(rooms'[rid], h, votedPlayerId) = rooms'[rid]]_vars

\* A first vote of two has just been stored in a room whose vote stays open:
\* the same vote delivered again finds its own entry.
C17_Witness ==
    \E rid \in DOMAIN rooms :
       /\ rooms[rid].status = "voting"
       /\ Len(rooms[rid].players) = 2
       /\ Len(rooms[rid].votes) = 1
       /\ emitted = <<ToRoom(rid, "vote-submitted", <<2, 1>>)>>

\* The step leaves the session of socket h with lastSeen = now.
Refreshed(h) ==
    /\ sockets[h].sessionId \in DOMAIN sessions'
    /\ sessions'[sockets[h].sessionId].lastSeen = now

\* C18: every room-affecting action that the server accepts (create-room,
\* join-room with its rejoin path, start-game, submit-topic, submit-gif,
\* submit-vote, next-round) sets the acting session's lastSeen to the time of
\* the action, which is what keeps a session that acted within the last 5
\* minutes from the sweeper.
C18_ActionsRefreshLastSeen ==
    [][\A h \in Handles, rid \in RoomIds :
          /\ \A name \in Names :
                /\ CreateRoom(h, rid, name) => Refreshed(h)
                /\ (JoinRoom(h, rid, name) /\ JoinOutcome(h, rid) \in {"joined", "rejoined"}) =>
                      Refreshed(h)
          /\ (StartGame(h, rid) /\ StartGameAccepts(h, rid)) => Refreshed(h)
          /\ \A topic \in Topics :
                (SubmitTopic(h, rid, topic) /\ SubmitTopicAccepts(h, rid)) => Refreshed(h)
          /\ \A gifUrl \in Gifs :
                (SubmitGif(h, rid, gifUrl) /\ emitted' # <<>>) => Refreshed(h)
          /\ \A votedPlayerId \in VoteTargets :
                (SubmitVote(h, rid, votedPlayerId) /\ emitted' # <<>>) => Refreshed(h)
          /\ (NextRound(h, rid) /\ NextRoundAccepts(h, rid)) => Refreshed(h)]_vars

\* The sessions a sweeper pass at time `now` has to remove: last seen more
\* than 5 minutes ago.
Stale == {sid \in DOMAIN sessions : sessions[sid].lastSeen + 5 < now}

\* C19: a sweeper pass removes exactly the sessions last seen more than 5
\* minutes before it, keeps every other session as it is, and changes no room.
C19_SweepRemovesStaleOnly ==
    [][Sweep =>
          /\ DOMAIN sessions' = DOMAIN sessions \ Stale
          /\ \A sid \in DOMAIN sessions' : sessions'[sid] = sessions[sid]
          /\ rooms' = rooms]_vars

\* After a pass that removed one session and kept another: the evicted
\* player still has the seat, the session seen 5 minutes ago or less is kept.
C19_Witness ==
    /\ emitted = <<>>
    /\ \E rid \in DOMAIN rooms :
          \E i \in 1..Len(rooms[rid].players) :
             rooms[rid].players[i].sessionId \notin DOMAIN sessions
    /\ \E sid \in DOMAIN sessions : sessions[sid].lastSeen < now

\* The session ids no longer in `sessions`: the evicted ones.
EvictedSids == IssuedSids \ DOMAIN sessions

C21_ReconnectionKeepsSession ==
    [][\A auth \in DOMAIN sessions :
          Connect(auth) =>
             /\ sockets'[Cardinality(Handles) + 1].sessionId = auth
             /\ DOMAIN sessions' = DOMAIN sessions
             /\ sessions'[auth].roomId = sessions[auth].roomId
             /\ sessions'[auth].playerName = sessions[auth].playerName
             /\ sessions'[auth].lastSeen = now
             /\ Rebound(Middleware(auth)) => Rebound(Middleware(auth))']_vars

\* A player has just reconnected into the room more than 5 minutes after the
\* server started, and the session still names the room.
C21_Witness ==
    \E rid \in DOMAIN rooms, h \in Handles :
       /\ Len(emitted) = 3
       /\ emitted[2] = ToSocket(h, "player-joined", rid)
       /\ now > SESSION_EXPIRY
       /\ sockets[h].sessionId \in DOMAIN sessions
       /\ sessions[sockets[h].sessionId].roomId = rid
       /\ sessions[sockets[h].sessionId].lastSeen = now

\* The rooms the step changes.
ChangedRooms == {rid \in DOMAIN rooms : rid \notin DOMAIN rooms' \/ rooms'[rid] # rooms[rid]}

\* C22: every action changes at most one room, no room is ever removed, and a
\* create-room adds a room and leaves every room that exists as it is.
C22_RoomsIndependent ==
    [][/\ DOMAIN rooms \subseteq DOMAIN rooms'
       /\ Cardinality(ChangedRooms) <= 1
       /\ \A h \in Handles, rid \in RoomIds, name \in Names :
             CreateRoom(h, rid, name) =>
                /\ rid \notin DOMAIN rooms
                /\ ChangedRooms = {}]_vars

\* Who sits in the room, seat by seat.
Roster(room) ==
    [i \in 1..Len(room.players) |->
        [sessionId |-> room.players[i].sessionId, name |-> room.players[i].name]]

\* The step is a connection, a disconnect or a sweeper pass.
ConnectionOrSweepStep ==
    \/ \E auth \in {NoSid} \cup IssuedSids : Connect(auth)
    \/ \E h \in Handles : Disconnect(h)
    \/ Sweep

\* C23: the roster of a room changes only by a join-room that appends one
\* player with 0 points while the status is 'lobby'; it never shrinks or
\* reorders, and a connection, a disconnect or a sweeper pass changes nobody's
\* seat or points.
C23_RosterAppendOnly ==
    [][\A rid \in DOMAIN rooms :
          /\ rid \in DOMAIN rooms'
          /\ \/ Roster(rooms'[rid]) = Roster(rooms[rid])
             \/ /\ \E h \in Handles, name \in Names : JoinRoom(h, rid, name)
                /\ rooms[rid].status = "lobby"
                /\ Len(rooms'[rid].players) = Len(rooms[rid].players) + 1
                /\ SubSeq(rooms'[rid].players, 1, Len(rooms[rid].players)) = rooms[rid].players
                /\ rooms'[rid].players[Len(rooms'[rid].players)].points = 0
          /\ ConnectionOrSweepStep =>
                /\ Roster(rooms'[rid]) = Roster(rooms[rid])
                /\ Points(rooms'[rid]) = Points(rooms[rid])]_vars

\* The step takes room rid into 'gif-selection'.
EntersGifSelection(rid) ==
    /\ rid \in DOMAIN rooms'
    /\ rooms'[rid].status = "gif-selection"
    /\ rid \notin DOMAIN rooms \/ rooms[rid].status # "gif-selection"

\* C24: a room that enters 'gif-selection' has no submissions in that state,
\* and a room that enters 'voting' has no votes in that state: nothing of an
\* earlier round is left for the next tally.
C24_PhasesStartEmpty ==
    [][\A rid \in RoomIds :
          /\ EntersGifSelection(rid) => rooms'[rid].submissions = <<>>
          /\ EntersVoting(rid) => rooms'[rid].votes = <<>>]_vars

\* A two-player room has just entered the vote of round 2 with no votes.
C24_Witness ==
    \E rid \in DOMAIN rooms :
       /\ rooms[rid].status = "voting"
       /\ rooms[rid].currentRound = 2
       /\ Len(rooms[rid].players) = 2
       /\ rooms[rid].votes = <<>>
       /\ emitted = <<ToRoom(rid, "all-gifs-submitted", rid)>>

\* The orders in which the votes of `votes` can have arrived.
Orders(votes) ==
    {[i \in 1..Len(votes) |-> votes[f[i]]] :
        f \in {g \in [1..Len(votes) -> 1..Len(votes)] :
                 \A i, j \in 1..Len(votes) : g[i] = g[j] => i = j}}

\* C25: the vote counts, the winner set and the points awarded by a tally
\* depend only on each voter's final vote: had the same final votes arrived
\* in any other order, the counts, the winners and every player's points
\* would be the same.
C25_TallyOrderIndependent ==
    [][\A rid \in RoomIds :
          VotingCompletes(rid) =>
             LET votes == rooms'[rid].votes
             IN \A other \in Orders(votes) :
                   /\ \A k \in Candidates(votes) : VoteCount(other, k) = VoteCount(votes, k)
                   /\ Range(Winners(other)) = Range(Winners(votes))
                   /\ Points([players |-> AwardPoints(rooms[rid].players, Winners(other))])
                         = Points(rooms'[rid])]_vars

\* A 1-1-1 tie of three players has just been tallied: three winners, a
\* point for each.
C25_Witness ==
    \E rid \in DOMAIN rooms :
       /\ rooms[rid].status = "reveal"
       /\ Len(emitted) = 1
       /\ emitted[1].ev = "round-ended"
       /\ Len(emitted[1].arg.winners) = 3
       /\ rooms[rid].currentRound = 1
       /\ Points(rooms[rid]) = <<1, 1, 1>>

\* C26: under cooperative play, a room with at least 2 players eventually is
\* in 'game-over', in round maxRounds: after maxRounds tallies, one a round.
C26_CooperativePlayEnds ==
    \A rid \in RoomIds :
       (rid \in DOMAIN rooms /\ Len(rooms[rid].players) >= 2)
          ~> (/\ rid \in DOMAIN rooms
              /\ rooms[rid].status = "game-over"
              /\ rooms[rid].currentRound = maxRounds)

\* The end of a cooperative game of two: 'game-over' in round 10, each player
\* with the 10 points of the 10 tallies.
C26_Witness ==
    \E rid \in DOMAIN rooms :
       /\ rooms[rid].status = "game-over"
       /\ rooms[rid].currentRound = maxRounds
       /\ Points(rooms[rid]) = <<10, 10>>

\* The current socket ids of the players of a room.
CurrentIds(room) == {room.players[i].id : i \in 1..Len(room.players)}

\* C27: in every reachable state the hostId and the winnerOfLastRound of a
\* room are each the current id of one of its players.
C27_HostAndJudgeArePlayers ==
    \A rid \in DOMAIN rooms :
       /\ rooms[rid].hostId \in CurrentIds(rooms[rid])
       /\ rooms[rid].winnerOfLastRound \in CurrentIds(rooms[rid])

\* C28: no tally counts a vote whose votedPlayerId is a handle, current or
\* earlier, of the player (by sessionId) who cast it.
C28_NoVoteForOwnHandle ==
    [][\A rid \in RoomIds :
          VotingCompletes(rid) =>
             \A i \in 1..Len(rooms'[rid].votes) :
                LET vote == rooms'[rid].votes[i] IN
                vote.votedPlayerId \in Handles =>
                   sockets[vote.votedPlayerId].sessionId # sockets[vote.voterId].sessionId]_vars

====
